---- MODULE Spec2Model ----
(***************************************************************************)
(* RolloutGenerator (src/rollout.py) and the script-level train loop       *)
(* (src/train.py) of the DDPG training harness, as state machines.         *)
(*                                                                         *)
(* The environment, the agent, the checkpoint saver and the summary        *)
(* writer are external collaborators.  They are modelled as recording      *)
(* stubs: the environment hands out nondeterministic rewards, done flags   *)
(* and success flags and keeps its own account of what it was asked to do; *)
(* the agent's action and Q estimate are functions of the observation and  *)
(* it records the remember()/train() calls it receives; the saver records  *)
(* the checkpoint names it writes; the writer counts the scalars it is     *)
(* handed and keeps the step they are keyed by.                            *)
(*                                                                         *)
(* The user of a RolloutGenerator may call any of its methods between two  *)
(* rollouts.  generate_rollout(), done(), create_checkpoint() and reset()  *)
(* may be called any number of times; update_stats(), update_summaries()   *)
(* and write_summary() are helpers of generate_rollout(), and the runs     *)
(* explored make at most one direct helper call, on a generator that has   *)
(* not been reset, and none afterwards.  `called` records which of reset() *)
(* and the helpers the user has called directly.                           *)
(*                                                                         *)
(* Rewards and Q estimates are Python floats in the code.  The model uses  *)
(* small integers, and a quotient of two of them is kept as a reduced      *)
(* fraction <<numerator, denominator>>: for such operands IEEE division is *)
(* correctly rounded, so two quotients compare as the fractions do.        *)
(***************************************************************************)
EXTENDS Integers, Sequences, FiniteSets, TLC

\* ------------------------------------------------------------------ bounds
MaxEpisodes == 3        \* generate_rollout() calls explored per run
MaxSteps == 2           \* largest env._max_episode_steps explored by train()

TrainEpisodes == 20     \* n_episodes of the train loop's configuration

Periods == {0, 2}       \* periodic_ckpt values explored; 0 stands for False
Budgets == {2}          \* n_episodes values explored
StepCaps == {1, 2}      \* env.max_episode_steps values explored by rollouts

Rewards == {-1, 2}      \* rewards env.step() may return

\* --------------------------------------------------------------- fractions
RECURSIVE GCD(_, _)
GCD(a, b) == IF b = 0 THEN a ELSE GCD(b, a % b)

Abs(n) == IF n < 0 THEN -n ELSE n

\* total / count for count > 0, as a reduced fraction
Quot(total, count) ==
    LET g == GCD(Abs(total), count)
    IN  <<total \div g, count \div g>>

FracGT(p, q) == p[1] * q[2] > q[1] * p[2]

Unset == <<0, 0>>       \* an attribute that has not been assigned yet

VARIABLES
    \* RolloutGenerator: configuration merged into the instance
    cfg, max_episode_steps,
    \* RolloutGenerator: instance attributes
    q_total, r_total, t_steps, episode, success, best_score,
    mean_eq, mean_er, eval_counter,
    \* generate_rollout(): position and locals
    pc, t, done, episodic_q, episodic_r, x, x2, u, r, q, info,
    \* value returned by the latest done() call
    last_done,
    \* the methods among reset() and the helpers that the user has called
    called,
    \* collaborators
    env, agent, saver, writer,
    \* train(): position and locals (train.py)
    tr_config, tr_pc, episode_batch, obs, min_d2goal, i, j, eval_run,
    tr_episode, tr_episodic_r, tr_episodic_q, tr_done,
    m_eval_score, m_eval_q, eval_score, eval_q, current_best_eval_score,
    \* train(): collaborators: the environment, the calls received since the
    \* latest env.reset(), the checkpoints written, the latest summary step
    tr_env, calls, tr_saved, tr_summary_step

config == <<cfg, max_episode_steps>>
self   == <<q_total, r_total, t_steps, episode, success, best_score,
            mean_eq, mean_er, eval_counter>>
locals == <<t, done, episodic_q, episodic_r, x, x2, u, r, q, info>>

rollout == <<config, self, pc, locals, last_done, called, env, agent, saver,
             writer>>

tr_locals == <<episode_batch, obs, min_d2goal, i, tr_episodic_r,
               tr_episodic_q, tr_done>>
tr_eval   == <<j, eval_run, m_eval_score, m_eval_q, eval_score, eval_q>>
trainer   == <<tr_config, tr_pc, tr_locals, tr_eval, tr_episode, current_best_eval_score,
               tr_env, calls, tr_saved, tr_summary_step>>

vars == <<rollout, trainer>>

\* ------------------------------------------------------------ environment
NoObs == [observation |-> -1, desired_goal |-> -1, achieved_goal |-> -1]

\* observation dictionary returned by env.reset()
EnvResetObs == [observation |-> 0, desired_goal |-> 50, achieved_goal |-> 100]

\* observation dictionary returned by env.step() from observation o
EnvNextObs(o) == [observation   |-> o.observation + 1,
                  desired_goal  |-> o.desired_goal,
                  achieved_goal |-> o.achieved_goal + 1]

\* the environment's own account of a reset() call
EnvAfterReset(e) ==
    [e EXCEPT !.obs = EnvResetObs, !.prev = NoObs, !.steps = 0,
              !.resets = @ + 1]

\* the environment's own account of a step() call that returns reward rr
EnvAfterStep(e, rr) ==
    [e EXCEPT !.prev = e.obs, !.obs = EnvNextObs(e.obs), !.steps = @ + 1,
              !.total_steps = @ + 1, !.total_r = @ + rr]

EnvInit == [obs |-> NoObs, prev |-> NoObs, steps |-> 0, resets |-> 0,
            total_steps |-> 0, total_r |-> 0, renders |-> 0]

\* ------------------------------------------------------------------ agent
\* action and Q estimate returned by agent.step() for the stacked
\* observation and goal
AgentAction(o) == 200 + o.observation
AgentQ(o) == 1 + o.observation

AgentInit == [remembered |-> 0, last |-> <<>>, trained |-> 0, total_q |-> 0,
              explore |-> FALSE, sleeps |-> 0]

\* ---------------------------------------------------- RolloutGenerator code
\* int(done)
IntOf(b) == IF b THEN 1 ELSE 0

\* a loop that runs one step past the cap
LoopCond_OneMore(dn, tt) == ~dn /\ tt <= max_episode_steps

\* rollout.py:52, the while condition
LoopCond(dn, tt) == ~dn /\ tt < max_episode_steps

\* rollout.py:55, the explore argument of agent.step()
Explore(ev) == ~ev

\* a transition built after x = x2
Transition_AfterAdvance(o, uu, rr, o2, dn) ==
    <<o2.observation, o2.desired_goal, o2.achieved_goal, uu, rr,
      o2.observation, o2.desired_goal, IntOf(dn)>>

\* rollout.py:57-59, the list handed to agent.remember()
Transition(o, uu, rr, o2, dn) ==
    <<o.observation, o.desired_goal, o.achieved_goal, uu, rr,
      o2.observation, o2.desired_goal, IntOf(dn)>>

\* a mean over the episodes before this one
Mean_Previous(total, count) == Quot(total, count + 1)

\* rollout.py:126-127
Mean(total, count) == Quot(total, count)

\* a counter of evaluation rollouts, successful or not
SuccessInc_Always(ev, inf) == IF ev THEN 1 ELSE 0

\* rollout.py:86, the amount added to self.success
SuccessInc(ev, inf) == IF ev /\ inf.is_success THEN 1 ELSE 0

\* a test of the episode count before its increment
PeriodicDue_Before(p, ep) == p # 0 /\ (ep - 1) % p = 0

\* rollout.py:93
PeriodicDue(p, ep) == p # 0 /\ ep % p = 0

\* a test that also fires on an equal score
BestDue_Equal(ev, sb, m, best) == ev /\ sb /\ ~FracGT(best, m)

\* rollout.py:97
BestDue(ev, sb, m, best) == ev /\ sb /\ FracGT(m, best)

\* a test for the budget being met exactly
DoneResult_Exact(n, ep) == n = ep

\* rollout.py:140
DoneResult(n, ep) == n <= ep

\* rollout.py:81, "self.summary is not None": self.summary is the tf.Summary()
\* made by the constructor, whatever summary_writer is
SummaryGuard == TRUE

\* a counter of steps instead of episodes
NextEpisode_Steps(ep, tt) == ep + tt

\* rollout.py:79
NextEpisode(ep, tt) == ep + 1

\* rollout.py:39-44, the values reset() assigns
reset == [q_total |-> 0, r_total |-> 0, t_steps |-> 0, episode |-> 0,
          success |-> 0]

\* arguments of a direct update_stats(eps_q, eps_r, t) call
StatsArgs == {<<5, -1, 3>>}

\* number of scalars in the merged summary that write_summary() obtains from
\* the session
MergedSizes == {0, 1}

\* optional configuration keys that only drive the collaborators; the
\* configurations explored render exactly when they have no periodic_ckpt
Extras == {[render |-> TRUE, train_cycles_per_ts |-> 2, step_sleep |-> FALSE],
           [render |-> FALSE, train_cycles_per_ts |-> 0, step_sleep |-> TRUE]}

Configs ==
  LET All ==
    {[eval |-> ev, save_best |-> sb, periodic_ckpt |-> p, n_episodes |-> n,
      summary_writer |-> w, render |-> e.render,
      train_cycles_per_ts |-> e.train_cycles_per_ts,
      step_sleep |-> e.step_sleep] :
        ev \in BOOLEAN, sb \in BOOLEAN, p \in Periods, n \in Budgets,
        w \in BOOLEAN, e \in Extras}
  IN  {c \in All : c.render = (c.periodic_ckpt = 0)}

\* the locals of generate_rollout() outside a call
NoLocals ==
    /\ t' = 0
    /\ done' = FALSE
    /\ episodic_q' = 0
    /\ episodic_r' = 0
    /\ x' = NoObs
    /\ x2' = NoObs
    /\ u' = 0
    /\ r' = 0
    /\ q' = 0
    /\ info' = [is_success |-> FALSE]

\* rollout.py:17-37
RolloutInit ==
    /\ cfg \in Configs
    /\ max_episode_steps \in StepCaps
    /\ q_total = reset.q_total
    /\ r_total = reset.r_total
    /\ t_steps = reset.t_steps
    /\ episode = reset.episode
    /\ success = reset.success
    /\ best_score = <<0, 1>>
    /\ mean_eq = Unset
    /\ mean_er = Unset
    /\ eval_counter = 0
    /\ pc = "idle"
    /\ t = 0
    /\ done = FALSE
    /\ episodic_q = 0
    /\ episodic_r = 0
    /\ x = NoObs
    /\ x2 = NoObs
    /\ u = 0
    /\ r = 0
    /\ q = 0
    /\ info = [is_success |-> FALSE]
    /\ last_done = "never"
    /\ called = {}
    /\ env = EnvInit
    /\ agent = AgentInit
    /\ saver = {}
    /\ writer = [count |-> 0, step |-> -1]

\* rollout.py:46-51
GenerateRolloutBegin ==
    /\ pc = "idle"
    /\ env.resets < MaxEpisodes
    /\ pc' = "loop"
    /\ t' = 0
    /\ done' = FALSE
    /\ episodic_q' = 0
    /\ episodic_r' = 0
    /\ x' = EnvResetObs
    /\ env' = EnvAfterReset(env)
    /\ UNCHANGED <<config, self, x2, u, r, q, info, last_done, called, agent,
                   saver, writer>>
    /\ UNCHANGED trainer

\* rollout.py:52-56
Step ==
    /\ pc = "loop"
    /\ LoopCond(done, t)
    /\ \E rr \in Rewards, dd \in BOOLEAN, ss \in BOOLEAN :
         /\ u' = AgentAction(x)
         /\ q' = AgentQ(x)
         /\ agent' = [agent EXCEPT !.explore = Explore(cfg.eval),
                                   !.total_q = @ + AgentQ(x)]
         /\ x2' = EnvNextObs(x)
         /\ r' = rr
         /\ done' = dd
         /\ info' = [is_success |-> ss]
         /\ env' = EnvAfterStep(env, rr)
    /\ pc' = "stepped"
    /\ UNCHANGED <<config, self, t, episodic_q, episodic_r, x, last_done,
                   called, saver, writer>>
    /\ UNCHANGED trainer

\* rollout.py:57-78
RememberAndTrain ==
    /\ pc = "stepped"
    /\ agent' = [agent EXCEPT
                   !.remembered = @ + 1,
                   !.last = Transition(x, u, r, x2, done),
                   !.trained = @ + (IF cfg.eval THEN 0
                                    ELSE cfg.train_cycles_per_ts),
                   !.sleeps = @ + (IF cfg.eval /\ cfg.step_sleep THEN 1 ELSE 0)]
    /\ x' = x2
    /\ env' = [env EXCEPT !.renders = @ + (IF cfg.render THEN 1 ELSE 0)]
    /\ t' = t + 1
    /\ episodic_r' = episodic_r + r
    /\ episodic_q' = episodic_q + q
    /\ pc' = "loop"
    /\ UNCHANGED <<config, self, done, x2, u, r, q, info, last_done, called,
                   saver, writer>>
    /\ UNCHANGED trainer

\* rollout.py:122-127 with self.episode = ep >= 1
update_stats(eps_q, eps_r, tt, ep) ==
    /\ q_total' = q_total + eps_q
    /\ r_total' = r_total + eps_r
    /\ t_steps' = t_steps + tt
    /\ mean_eq' = Mean(q_total', ep)
    /\ mean_er' = Mean(r_total', ep)

\* rollout.py:103-114 with self.episode = ep: two scalars, keyed by the
\* counter; without a writer line 113 raises after line 106
update_summaries(ep) ==
    /\ eval_counter' = IF cfg.eval THEN eval_counter + 1 ELSE eval_counter
    /\ writer' = IF cfg.summary_writer
                 THEN [count |-> writer.count + 2,
                       step  |-> IF cfg.eval THEN eval_counter' ELSE ep]
                 ELSE writer

\* rollout.py:52 (loop exit), 79-82
EndEpisode ==
    /\ pc = "loop"
    /\ ~LoopCond(done, t)
    /\ episode' = NextEpisode(episode, t)
    /\ update_stats(episodic_q, episodic_r, t, episode')
    /\ IF SummaryGuard
         THEN /\ update_summaries(episode')
              /\ IF cfg.summary_writer
                   THEN /\ pc' = "post"
                        /\ UNCHANGED locals
                   ELSE \* None has no add_summary: AttributeError
                        /\ pc' = "aborted"
                        /\ NoLocals
         ELSE /\ UNCHANGED <<eval_counter, writer, locals>>
              /\ pc' = "post"
    /\ UNCHANGED <<config, success, best_score, last_done, called, env, agent,
                   saver>>
    /\ UNCHANGED trainer

\* rollout.py:92-101, on an instance whose mean_er is set
create_checkpoint ==
    /\ saver' = saver
                \cup (IF PeriodicDue(cfg.periodic_ckpt, episode)
                      THEN {<<"P", episode>>} ELSE {})
                \cup (IF BestDue(cfg.eval, cfg.save_best, mean_er, best_score)
                      THEN {<<"B", episode>>} ELSE {})
    /\ best_score' = IF BestDue(cfg.eval, cfg.save_best, mean_er, best_score)
                     THEN mean_er ELSE best_score

\* rollout.py:84-90
FinishRollout ==
    /\ pc = "post"
    /\ success' = success + SuccessInc(cfg.eval, info)
    /\ create_checkpoint
    /\ pc' = "idle"
    /\ NoLocals
    /\ UNCHANGED <<config, q_total, r_total, t_steps, episode, mean_eq, mean_er,
                   eval_counter, last_done, called, env, agent, writer>>
    /\ UNCHANGED trainer

\* rollout.py:92-101, called by the user of the generator
CreateCheckpointCall ==
    /\ pc = "idle"
    /\ IF cfg.eval /\ cfg.save_best /\ mean_er = Unset
         THEN \* self.mean_er does not exist before the first rollout
              /\ pc' = "aborted"
              /\ saver' = saver \cup (IF PeriodicDue(cfg.periodic_ckpt, episode)
                                       THEN {<<"P", episode>>} ELSE {})
              /\ UNCHANGED best_score
         ELSE /\ create_checkpoint
              /\ pc' = "idle"
    /\ UNCHANGED <<config, q_total, r_total, t_steps, episode, success, mean_eq,
                   mean_er, eval_counter, locals, last_done, called, env,
                   agent, writer>>
    /\ UNCHANGED trainer

\* rollout.py:139-143
DoneCall ==
    /\ pc = "idle"
    /\ last_done' = IF DoneResult(cfg.n_episodes, episode) THEN "True"
                                                           ELSE "False"
    /\ UNCHANGED <<config, self, pc, locals, called, env, agent, saver,
                   writer>>
    /\ UNCHANGED trainer

\* rollout.py:39-44, called by the user of the generator
ResetCall ==
    /\ pc = "idle"
    /\ called \subseteq {"reset"}
    /\ q_total' = reset.q_total
    /\ r_total' = reset.r_total
    /\ t_steps' = reset.t_steps
    /\ episode' = reset.episode
    /\ success' = reset.success
    /\ called' = called \cup {"reset"}
    /\ UNCHANGED <<config, best_score, mean_eq, mean_er, eval_counter, pc,
                   locals, last_done, env, agent, saver, writer>>
    /\ UNCHANGED trainer

\* rollout.py:122-127, called by the user of the generator
UpdateStatsCall ==
    /\ pc = "idle"
    /\ called = {}
    /\ called' = called \cup {"update_stats"}
    /\ \E a \in StatsArgs :
         IF episode = 0
           THEN \* line 126 divides by self.episode: ZeroDivisionError
                /\ q_total' = q_total + a[1]
                /\ r_total' = r_total + a[2]
                /\ t_steps' = t_steps + a[3]
                /\ UNCHANGED <<mean_eq, mean_er>>
                /\ pc' = "aborted"
           ELSE /\ update_stats(a[1], a[2], a[3], episode)
                /\ pc' = "idle"
    /\ UNCHANGED <<config, episode, success, best_score, eval_counter, locals,
                   last_done, env, agent, saver, writer>>
    /\ UNCHANGED trainer

\* rollout.py:103-114, called by the user of the generator; the two values
\* it is given go to the writer, which keeps their number only
UpdateSummariesCall ==
    /\ pc = "idle"
    /\ called = {}
    /\ called' = called \cup {"update_summaries"}
    /\ update_summaries(episode)
    /\ pc' = IF cfg.summary_writer THEN "idle" ELSE "aborted"
    /\ UNCHANGED <<config, q_total, r_total, t_steps, episode, success,
                   best_score, mean_eq, mean_er, locals, last_done, env, agent,
                   saver>>
    /\ UNCHANGED trainer

\* rollout.py:116-120, called by the user of the generator
WriteSummaryCall ==
    /\ pc = "idle"
    /\ called = {}
    /\ called' = called \cup {"write_summary"}
    /\ IF cfg.summary_writer
         THEN /\ \E n \in MergedSizes :
                    writer' = [count |-> writer.count + n, step |-> episode]
              /\ pc' = "idle"
         ELSE \* None has no add_summary: AttributeError
              /\ writer' = writer
              /\ pc' = "aborted"
    /\ UNCHANGED <<config, self, locals, last_done, env, agent, saver>>
    /\ UNCHANGED trainer

RolloutNext ==
    \/ GenerateRolloutBegin
    \/ Step
    \/ RememberAndTrain
    \/ EndEpisode
    \/ FinishRollout
    \/ CreateCheckpointCall
    \/ DoneCall
    \/ ResetCall
    \/ UpdateStatsCall
    \/ UpdateSummariesCall
    \/ WriteSummaryCall

\* ------------------------------------------------------- train() (train.py)
EvalEvery == 20         \* train.py:94
EvalRuns == 5           \* train.py:99
TrainCycles == 5        \* train.py:77

NoTrObs == [obs |-> -1, goal |-> -1, ag |-> -1]

\* observation dictionary returned by env.reset()
TrEnvResetObs == [obs |-> 0, goal |-> 50, ag |-> 100]

\* observation dictionary returned by env.step() from observation o
TrEnvNextObs(o) == [obs |-> o.obs + 1, goal |-> o.goal, ag |-> o.ag + 1]

\* reward returned by env.step(): a step costs 1, the step that ends the
\* episode earns 2
TrEnvReward(dd) == IF dd THEN 2 ELSE -1

\* distance to the goal reported by env.get_current_distance() and in info
TrEnvDist(o) == o.goal - o.obs

\* action, discretised action and Q estimate returned by ddpg_agent.step()
TrAgentAction(o) == <<-1, 1>>
TrAgentU(o) == 200 + o.obs
TrAgentQ(o) == 1 + o.obs

\* train.py:18-19 on the agent's action <<-1, 1>>, in units of 0.1 for the
\* velocity and of pi/4 for the angle: (u + 1)/2 * [0.2, pi/2] + [0, -pi/4]
scale_action(a) == <<a[1] + 1, a[2]>>

\* a batch that drops the step that ended the episode
BatchAppend_SkipTerminal(batch, tr) ==
    IF tr[8] = 1 THEN batch ELSE Append(batch, tr)

\* train.py:66
BatchAppend(batch, tr) == Append(batch, tr)

\* train.py:65-67, the experience built from a step
TrTransition(o, uu, rr, o2, dn) ==
    <<o.obs, o.goal, o.ag, uu, rr, o2.obs, o2.goal, IntOf(dn)>>

\* train.py:87-88, the remember() calls of one flush, in call order
Flush(batch) == [k \in 1..Len(batch) |-> <<"remember", batch[k]>>]

\* train.py:94
EvalDue(ep) == (ep + 1) % EvalEvery = 0

\* train.py:22-44
TrainInit ==
    /\ tr_config \in [n_episodes : {TrainEpisodes}, render : BOOLEAN,
                      max_episode_steps : 1..MaxSteps]
    /\ tr_pc = "episode"
    /\ tr_episode = 0
    /\ current_best_eval_score = 0
    /\ episode_batch = <<>>
    /\ obs = NoTrObs
    /\ min_d2goal = 0
    /\ i = 0
    /\ j = 0
    /\ eval_run = 0
    /\ tr_episodic_r = 0
    /\ tr_episodic_q = 0
    /\ tr_done = FALSE       \* unbound before the first env.step()
    /\ m_eval_score = 0
    /\ m_eval_q = 0
    /\ eval_score = 0
    /\ eval_q = 0
    /\ tr_env = [obs |-> NoTrObs, steps |-> 0, renders |-> 0,
                 action |-> <<0, 0>>]
    /\ calls = <<>>
    /\ tr_saved = {}
    /\ tr_summary_step = -1

\* train.py:45-50
TrainEpisodeBegin ==
    /\ tr_pc = "episode"
    /\ tr_episode < tr_config.n_episodes
    /\ tr_episodic_r' = 0
    /\ tr_episodic_q' = 0
    /\ obs' = TrEnvResetObs
    /\ tr_env' = [tr_env EXCEPT !.obs = TrEnvResetObs, !.steps = 0]
    /\ calls' = <<>>
    /\ episode_batch' = <<>>
    /\ min_d2goal' = TrEnvDist(TrEnvResetObs)
    /\ i' = 0
    /\ tr_pc' = "step"
    /\ UNCHANGED <<tr_config, tr_done, tr_eval, tr_episode,
                   current_best_eval_score, tr_saved, tr_summary_step>>
    /\ UNCHANGED rollout

\* train.py:45, the range is exhausted and train() returns
TrainReturn ==
    /\ tr_pc = "episode"
    /\ tr_episode >= tr_config.n_episodes
    /\ tr_pc' = "returned"
    /\ UNCHANGED <<tr_config, tr_locals, tr_eval, tr_episode,
                   current_best_eval_score, tr_env, calls, tr_saved,
                   tr_summary_step>>
    /\ UNCHANGED rollout

\* train.py:51-76
TrainEnvStep ==
    /\ tr_pc = "step"
    /\ \E dd \in BOOLEAN :
         LET rr == TrEnvReward(dd)
             new_obs == TrEnvNextObs(obs)
             dist == TrEnvDist(TrEnvNextObs(tr_env.obs))
             tr == TrTransition(obs, TrAgentU(obs), rr, new_obs, dd)
         IN  /\ tr_episodic_q' = tr_episodic_q + TrAgentQ(obs)
             /\ tr_env' = [tr_env EXCEPT
                             !.obs = TrEnvNextObs(tr_env.obs),
                             !.steps = @ + 1,
                             !.action = scale_action(TrAgentAction(obs)),
                             !.renders = @ + (IF tr_config.render THEN 1
                                                                  ELSE 0)]
             /\ calls' = Append(calls, <<"step", tr_env.obs, rr,
                                         TrEnvNextObs(tr_env.obs), dd>>)
             /\ episode_batch' = BatchAppend(episode_batch, tr)
             /\ min_d2goal' = IF dist < min_d2goal THEN dist ELSE min_d2goal
             /\ obs' = new_obs
             /\ tr_episodic_r' = tr_episodic_r + rr
             /\ tr_done' = dd
    /\ tr_pc' = "stepped"
    /\ UNCHANGED <<tr_config, i, tr_eval, tr_episode, current_best_eval_score,
                   tr_saved, tr_summary_step>>
    /\ UNCHANGED rollout

\* train.py:77-85 and the next test of the range at train.py:51
TrainAgent ==
    /\ tr_pc = "stepped"
    /\ calls' = calls \o [k \in 1..TrainCycles |-> <<"train">>]
    /\ IF tr_done
         THEN /\ tr_pc' = "flush"
              /\ UNCHANGED <<i, tr_summary_step>>
         ELSE /\ tr_summary_step' =
                     tr_episode * tr_config.max_episode_steps + i
              /\ IF i + 1 < tr_config.max_episode_steps
                   THEN i' = i + 1 /\ tr_pc' = "step"
                   ELSE i' = i /\ tr_pc' = "flush"
    /\ UNCHANGED <<tr_config, episode_batch, obs, min_d2goal, tr_episodic_r,
                   tr_episodic_q, tr_done, tr_eval, tr_episode,
                   current_best_eval_score, tr_env, tr_saved>>
    /\ UNCHANGED rollout

\* train.py:87-98
FlushAndLog ==
    /\ tr_pc = "flush"
    /\ calls' = calls \o Flush(episode_batch)
    /\ tr_summary_step' = tr_episode
    /\ IF EvalDue(tr_episode)
         THEN /\ tr_pc' = "eval"
              /\ m_eval_score' = 0
              /\ m_eval_q' = 0
              /\ eval_run' = 0
              /\ UNCHANGED tr_episode
         ELSE /\ tr_pc' = "episode"
              /\ tr_episode' = tr_episode + 1
              /\ UNCHANGED <<m_eval_score, m_eval_q, eval_run>>
    /\ UNCHANGED <<tr_config, tr_locals, j, eval_score, eval_q,
                   current_best_eval_score, tr_env, tr_saved>>
    /\ UNCHANGED rollout

\* train.py:99-102
EvalRunBegin ==
    /\ tr_pc = "eval"
    /\ eval_run < EvalRuns
    /\ eval_score' = 0
    /\ eval_q' = 0
    /\ obs' = TrEnvResetObs
    /\ tr_env' = [tr_env EXCEPT !.obs = TrEnvResetObs, !.steps = 0]
    /\ calls' = <<>>
    /\ j' = 0
    /\ tr_pc' = "evalstep"
    /\ UNCHANGED <<tr_config, episode_batch, min_d2goal, i, tr_episodic_r,
                   tr_episodic_q, tr_done, eval_run, m_eval_score, m_eval_q,
                   tr_episode, current_best_eval_score, tr_saved,
                   tr_summary_step>>
    /\ UNCHANGED rollout

\* train.py:103-114
EvalStep ==
    /\ tr_pc = "evalstep"
    /\ \E dd \in BOOLEAN :
       LET rr == TrEnvReward(dd) IN
         /\ tr_env' = [tr_env EXCEPT !.obs = TrEnvNextObs(tr_env.obs),
                                     !.steps = @ + 1,
                                     !.action = TrAgentAction(obs)]
         /\ calls' = Append(calls, <<"step", tr_env.obs, rr,
                                     TrEnvNextObs(tr_env.obs), dd>>)
         /\ tr_done' = dd
         /\ IF dd \/ j + 1 >= tr_config.max_episode_steps
              THEN /\ m_eval_q' = m_eval_q + eval_q + TrAgentQ(obs)
                   /\ m_eval_score' = m_eval_score + eval_score + rr
                   /\ eval_score' = eval_score + rr
                   /\ eval_q' = eval_q + TrAgentQ(obs)
                   /\ eval_run' = eval_run + 1
                   /\ j' = j
                   /\ tr_pc' = "eval"
              ELSE /\ eval_score' = eval_score + rr
                   /\ eval_q' = eval_q + TrAgentQ(obs)
                   /\ j' = j + 1
                   /\ tr_pc' = "evalstep"
                   /\ UNCHANGED <<m_eval_q, m_eval_score, eval_run>>
    /\ obs' = TrEnvNextObs(obs)
    /\ UNCHANGED <<tr_config, episode_batch, min_d2goal, i, tr_episodic_r,
                   tr_episodic_q, tr_episode, current_best_eval_score,
                   tr_saved, tr_summary_step>>
    /\ UNCHANGED rollout

\* train.py:115-121 and the next episode of train.py:45
EvalCheckpoint ==
    /\ tr_pc = "eval"
    /\ eval_run >= EvalRuns
    /\ IF m_eval_score > current_best_eval_score
         THEN /\ current_best_eval_score' = m_eval_score
              /\ tr_saved' = tr_saved \cup {<<"nb_policy", tr_episode>>}
         ELSE UNCHANGED <<current_best_eval_score, tr_saved>>
    /\ tr_episode' = tr_episode + 1
    /\ tr_pc' = "episode"
    /\ UNCHANGED <<tr_config, tr_locals, tr_eval, tr_env, calls,
                   tr_summary_step>>
    /\ UNCHANGED rollout

TrainNext ==
    \/ TrainEpisodeBegin
    \/ TrainEnvStep
    \/ TrainAgent
    \/ FlushAndLog
    \/ EvalRunBegin
    \/ EvalStep
    \/ EvalCheckpoint
    \/ TrainReturn

\* ---------------------------------------------------------- specifications
\* a RolloutGenerator that is constructed and never called
RolloutParked ==
    /\ RolloutInit
    /\ cfg = [eval |-> FALSE, save_best |-> FALSE, periodic_ckpt |-> 0,
              n_episodes |-> 2, summary_writer |-> TRUE, render |-> TRUE,
              train_cycles_per_ts |-> 2, step_sleep |-> FALSE]
    /\ max_episode_steps = 1

\* a train() that is never started
TrainParked ==
    /\ TrainInit
    /\ tr_config = [n_episodes |-> TrainEpisodes, render |-> FALSE,
                    max_episode_steps |-> 1]

\* the runs of a RolloutGenerator
Init == RolloutInit /\ TrainParked
Next == RolloutNext
Spec == Init /\ [][Next]_vars

\* the runs of train()
InitTrain == TrainInit /\ RolloutParked
NextTrain == TrainNext
SpecTrain == InitTrain /\ [][NextTrain]_vars

\* ------------------------------------------------------------------ claims
InCall == pc \in {"loop", "stepped"}

\* a step that runs create_checkpoint() at the end of generate_rollout()
RolloutReturns == pc = "post" /\ pc' = "idle"

\* a step that leaves the while loop of generate_rollout()
LoopExits == pc = "loop" /\ pc' \in {"post", "aborted"}

PeriodicSaved == {c \in saver : c[1] = "P"}
BestSaved == {c \in saver : c[1] = "B"}

\* a step made by create_checkpoint(), inside a rollout or called directly
CheckpointRuns == RolloutReturns \/ CreateCheckpointCall

\* a generator on which reset() has not been called
NeverReset == "reset" \notin called

\* C1: a done() call returns True exactly when episode >= n_episodes, and
\* only a done() call changes the latest return value; on a generator that
\* has not been reset, once a done() call has returned True no later done()
\* call returns False; and no call other than reset() lowers the episode
\* counter that the return value is computed from.
C1_DoneIffBudgetSpent ==
    [][/\ DoneCall => ((last_done' = "True") <=> (episode >= cfg.n_episodes))
       /\ last_done' # last_done => DoneCall
       /\ (NeverReset' /\ last_done = "True") => last_done' = "True"
       /\ ~ResetCall => episode' >= episode]_vars

C1_Witness ==
    /\ last_done = "True"
    /\ episode > cfg.n_episodes
    /\ pc = "idle"
    /\ NeverReset

\* C2: each generate_rollout() call that leaves its step loop adds exactly 1
\* to the episode counter, whatever its number of steps and its mode;
\* done(), create_checkpoint(), update_stats(), update_summaries() and
\* write_summary() leave the counter alone and only reset() lowers it; on a
\* generator that has not been reset the counter equals the number of
\* generate_rollout() calls that have left their loop (the environment is
\* reset once per call, so env.resets counts the calls started).
C2_EpisodeCountsRollouts ==
    [][/\ LoopExits => episode' = episode + 1
       /\ (DoneCall \/ CreateCheckpointCall \/ UpdateStatsCall
           \/ UpdateSummariesCall \/ WriteSummaryCall) => episode' = episode
       /\ (~LoopExits /\ ~ResetCall) => episode' = episode
       /\ NeverReset' =>
             episode' = env'.resets - (IF InCall' THEN 1 ELSE 0)
       /\ episode' >= 0]_vars

C2_Witness ==
    /\ episode = 3
    /\ pc = "idle"
    /\ t_steps > 3
    /\ last_done # "never"
    /\ cfg.eval
    /\ called = {"update_summaries"}

\* C3: a step writes the checkpoint "P_e" only when it runs
\* create_checkpoint() with periodic_ckpt configured and dividing the episode
\* count e, and every such step leaves "P_e" written; on a generator that
\* has not been reset, for every episode count e >= 1 reached so far "P_e"
\* exists exactly when periodic_ckpt is configured, divides e, and the
\* rollout that made the count e has returned.
C3_PeriodicCheckpoint ==
    [][/\ LET due == /\ CheckpointRuns
                     /\ cfg.periodic_ckpt # 0
                     /\ episode % cfg.periodic_ckpt = 0
          IN  /\ due => <<"P", episode>> \in saver'
              /\ PeriodicSaved' \ PeriodicSaved
                    \subseteq (IF due THEN {<<"P", episode>>} ELSE {})
       /\ NeverReset' =>
             \A e \in 1..MaxEpisodes :
                 (<<"P", e>> \in saver')
                 <=> /\ cfg.periodic_ckpt # 0
                     /\ e % cfg.periodic_ckpt = 0
                     /\ \/ e < episode'
                        \/ e = episode' /\ pc' \notin {"post", "aborted"}
      ]_vars

C3_Witness ==
    /\ cfg.periodic_ckpt = 2
    /\ episode = 3
    /\ pc = "idle"
    /\ NeverReset
    /\ PeriodicSaved \ {<<"P", 0>>} = {<<"P", 2>>}

\* C4: a step writes a "B" checkpoint exactly when it runs
\* create_checkpoint() in evaluation mode with save_best set and mean_er
\* strictly above best_score; the checkpoint is named after the current
\* episode; best_score then becomes mean_er, is unchanged by every other
\* step, and so never decreases.
C4_BestCheckpoint ==
    [][LET due == /\ CheckpointRuns
                  /\ pc' = "idle"
                  /\ cfg.eval
                  /\ cfg.save_best
                  /\ mean_er # Unset
                  /\ mean_er[1] * best_score[2] > best_score[1] * mean_er[2]
       IN  /\ due => /\ <<"B", episode>> \in saver'
                     /\ best_score' = mean_er
                     /\ best_score' # best_score
           /\ ~due => /\ BestSaved' = BestSaved
                      /\ best_score' = best_score
           /\ BestSaved' \ BestSaved \subseteq {<<"B", episode>>}
           /\ best_score'[1] * best_score[2] >= best_score[1] * best_score'[2]
      ]_vars

C4_Witness ==
    /\ BestSaved = {<<"B", 1>>, <<"B", 3>>}
    /\ pc = "idle"
    /\ episode = 3
    /\ called = {}

\* C5: the agent has been handed one transition per environment step, the
\* one for the latest step before any further step is taken; the transition
\* has 8 fields: the observation, goal and achieved goal the environment
\* held before the step, the action, the reward, the observation and goal it
\* holds after the step, and the done flag as an integer.
C5_RememberEveryStep ==
    /\ agent.remembered = env.total_steps - (IF pc = "stepped" THEN 1 ELSE 0)
    /\ (pc = "loop" /\ t > 0) =>
          /\ Len(agent.last) = 8
          /\ agent.last = <<env.prev.observation, env.prev.desired_goal,
                            env.prev.achieved_goal, AgentAction(env.prev), r,
                            env.obs.observation, env.obs.desired_goal,
                            IF done THEN 1 ELSE 0>>

C5_Witness ==
    /\ pc = "loop"
    /\ t = 2
    /\ done
    /\ agent.last[8] = 1
    /\ agent.remembered = 4

\* C6: whenever the episode counter is N >= 1, mean_er * N = r_total and
\* mean_eq * N = q_total; and on a generator on which neither reset() nor
\* update_stats() has been called directly, r_total, q_total and t_steps
\* account for every reward, Q estimate and step the collaborators handed
\* out in the rollouts that have left their loop.
C6_RunningMeans ==
    LET inflight(total, latest) ==
            IF InCall THEN total + (IF pc = "stepped" THEN latest ELSE 0)
                      ELSE 0
    IN  /\ called \cap {"reset", "update_stats"} = {} =>
              /\ r_total + inflight(episodic_r, r) = env.total_r
              /\ q_total + inflight(episodic_q, q) = agent.total_q
              /\ t_steps + inflight(t, 1) = env.total_steps
        /\ episode >= 1 =>
              /\ mean_er[2] > 0
              /\ mean_eq[2] > 0
              /\ mean_er[1] * episode = r_total * mean_er[2]
              /\ mean_eq[1] * episode = q_total * mean_eq[2]

C6_Witness ==
    /\ episode = 3
    /\ pc = "idle"
    /\ r_total = 7
    /\ mean_er = <<7, 3>>
    /\ t_steps = 5
    /\ called = {}

\* C7: the environment is reset by the step that starts a call and by no
\* other step, before the call's steps; a call takes at most
\* max_episode_steps steps, none after a step that returned done, and leaves
\* the loop only after a done step or after exactly max_episode_steps steps.
C7_EpisodeBounded ==
    [][/\ env'.steps <= max_episode_steps
       /\ env'.resets = env.resets
                        + (IF pc = "idle" /\ pc' = "loop" THEN 1 ELSE 0)
       /\ (pc = "idle" /\ pc' = "loop") => env'.steps = 0
       /\ InCall' => env'.steps = t' + (IF pc' = "stepped" THEN 1 ELSE 0)
       /\ env'.steps # env.steps /\ env'.steps # 0 => ~done /\ pc = "loop"
       /\ LoopExits => (done \/ env.steps = max_episode_steps)
       /\ LoopExits => env.steps >= 1]_vars

C7_Witness ==
    /\ pc = "post"
    /\ ~done
    /\ t = max_episode_steps
    /\ max_episode_steps = 2

\* C8 (as the specification states it): without a summary writer the
\* rollout writes no summary and still completes.
C8_NoWriterCompletes ==
    ~cfg.summary_writer => (writer.count = 0 /\ (pc = "aborted" => episode = 0))

\* C8 (what the code does): a rollout that leaves its loop writes its
\* summaries when a writer is configured and aborts when none is.
C8_NoWriterAborts ==
    [][LoopExits => IF cfg.summary_writer
                    THEN pc' = "post" /\ writer'.count = writer.count + 2
                    ELSE pc' = "aborted" /\ writer' = writer]_vars

\* C9 (as the specification states it): a returning rollout adds 1 to the
\* success counter exactly when its final info signalled success.
C9_SuccessCountsAllModes ==
    [][RolloutReturns =>
          success' = success + (IF info.is_success THEN 1 ELSE 0)]_vars

\* C9 (amended): a returning rollout adds 1 to the success counter exactly
\* when it runs in evaluation mode and its final info signalled success;
\* reset() clears the counter and no other step changes it; it stays 0 in
\* training mode and never exceeds the episode counter.
C9_SuccessCountsEvalOnly ==
    [][/\ RolloutReturns =>
            success' = success
                       + (IF cfg.eval /\ info.is_success THEN 1 ELSE 0)
       /\ ResetCall => success' = 0
       /\ (~RolloutReturns /\ ~ResetCall) => success' = success
       /\ ~cfg.eval => success' = 0
       /\ success' <= episode']_vars

C9_Witness ==
    /\ cfg.eval
    /\ episode = 3
    /\ success = 2
    /\ pc = "idle"

StepCalls ==
    LET IsStep(e) == e[1] = "step" IN SelectSeq(calls, IsStep)
RememberCalls ==
    LET IsRemember(e) == e[1] = "remember" IN SelectSeq(calls, IsRemember)
TrainCalls ==
    LET IsTrain(e) == e[1] = "train" IN SelectSeq(calls, IsTrain)

\* the experience the environment's account of a step call amounts to
Experience(e) ==
    <<e[2].obs, e[2].goal, e[2].ag, TrAgentU(e[2]), e[3],
      e[4].obs, e[4].goal, IF e[5] THEN 1 ELSE 0>>

\* C10: among the calls made since the latest env.reset(), no remember()
\* call is made while the training episode's step loop runs and none is
\* followed by a step() or a train() call; once the episode's batch has been
\* flushed, the remember() calls are, in order, one per step() call of the
\* episode with that step's experience, the step that ended the episode
\* included.
C10_BatchFlushedAfterEpisode ==
    /\ tr_pc \in {"step", "stepped", "flush"} => RememberCalls = <<>>
    /\ \A k \in 1..Len(calls) :
          calls[k][1] = "remember" =>
              \A m \in k..Len(calls) : calls[m][1] = "remember"
    /\ (TrainCalls # <<>> /\ tr_pc \notin {"step", "stepped", "flush"}) =>
          /\ Len(RememberCalls) = Len(StepCalls)
          /\ \A k \in 1..Len(StepCalls) :
                RememberCalls[k][2] = Experience(StepCalls[k])

C10_Witness ==
    /\ tr_pc = "episode"
    /\ tr_episode = 2
    /\ Len(RememberCalls) = 2
    /\ RememberCalls[2][2][8] = 1
    /\ Len(TrainCalls) = 2 * TrainCycles
====
